---- MODULE Spec2Model ----
(***************************************************************************)
(* Verification model of the neuron populations of sl_stdp (src/node.py):  *)
(* QuintanaExcNodes (adaptive-threshold LIF with current-based synapse)    *)
(* and QuintanaSLNodes (supervision layer).                                *)
(*                                                                         *)
(* One population object is modelled; cls is its class.  Tensors of shape  *)
(* [batch, n] are functions [1..batch_size -> [1..N -> Int]]; theta has    *)
(* shape [n].  Voltages, currents and traces are integers (a fixed-point   *)
(* grid): every product with a decay coefficient is rounded to the nearest *)
(* grid point, as every floating-point operation of the code is rounded to *)
(* the nearest representable number.  Times (dt, refrac, time constants)   *)
(* are integers in one common unit; a decay coefficient dt/tc is kept as   *)
(* the pair <<dt, tc>>.                                                    *)
(*                                                                         *)
(* The base class (bindsnet Nodes) is used with traces = False and         *)
(* sum_input = False, the constructor defaults (src/node.py:17,21): its    *)
(* forward then changes nothing, its reset_state_variables and             *)
(* set_batch_size clear s, its train(mode) sets learning.                  *)
(*                                                                         *)
(* hist is a history variable (what the neurons did in the steps taken so  *)
(* far), kept only by the specifications that say so; net is the network   *)
(* assembled by Quintana2020 (src/model.py), NoNet while a single          *)
(* population is modelled.                                                 *)
(***************************************************************************)
EXTENDS Integers, Sequences, FiniteSets, TLC

VARIABLES cls, n, par, dt, dec, learning, batch_size, v, I, X, s,
          refrac_count, theta, op, xin, work, hist, net

vars == <<cls, n, par, dt, dec, learning, batch_size, v, I, X, s,
          refrac_count, theta, op, xin, work, hist, net>>

----------------------------------------------------------------------------
(* Bounds of the model. *)

MaxWork == 6        \* neuron updates (forward steps * batch_size * n) of one behaviour
MaxTheta == 24      \* forward is not taken if it would move |theta| above MaxTheta

(* Program constants. *)
ThetaInit == 20     \* torch.ones(*self.shape) * 20

Unset == <<0, 0>>   \* a coefficient allocated with torch.empty_like, not yet assigned
NoDt == 0           \* dt before compute_decays
None == << >>       \* lbound = None; a configured bound b is <<b>>
NoHist == << >>     \* no history is kept
NoNet == << >>      \* no network is assembled
Exc == "QuintanaExcNodes"
SL == "QuintanaSLNodes"

Neurons == 1..n
Batch == 1..batch_size

----------------------------------------------------------------------------
(* Arithmetic. *)

Abs(a) == IF a >= 0 THEN a ELSE -a

\* a/b rounded to the nearest integer, halves away from zero (b > 0).
RoundDiv(a, b) ==
    IF a >= 0 THEN (2 * a + b) \div (2 * b)
    ELSE -((2 * (-a) + b) \div (2 * b))

\* The quotient a/b of two tensors' scalars, kept as the pair <<a, b>>;
\* a zero denominator is +-inf, as in torch.
Quot(a, b) == <<a, b>>
IsInf(q) == q[2] = 0 /\ q[1] # 0

\* coefficient * value, rounded.
Times(c, a) == RoundDiv(c[1] * a, c[2])

RECURSIVE IntPow(_, _)
IntPow(b, e) == IF e = 0 THEN 1 ELSE b * IntPow(b, e - 1)

\* (tau_dec / tau_inc) ** (tau_inc / (tau_dec - tau_inc)), for the time
\* constants whose exponent is a whole number.  With tau_dec = tau_inc the
\* base is 1 and the exponent inf: pow(1, inf) = 1.
KernelC(tau_inc, tau_dec) ==
    LET e == Quot(tau_inc, tau_dec - tau_inc) IN
    IF IsInf(e) THEN <<1, 1>>
    ELSE LET k == e[1] \div e[2] IN
         IF k >= 0 THEN <<IntPow(tau_dec, k), IntPow(tau_inc, k)>>
         ELSE <<IntPow(tau_inc, -k), IntPow(tau_dec, -k)>>

----------------------------------------------------------------------------
(* Construction parameters (constant after __init__). *)

\* QuintanaExcNodes(rest, reset, thresh, refrac, tc_decay, theta_plus,
\* tc_theta_decay, R, tau_inc, tau_dec, lbound)
ExcConfigs ==
    { [rest |-> 0, reset |-> 0, thresh |-> -16, refrac |-> 2, tc_decay |-> 2,
       theta_plus |-> 1, tc_theta_decay |-> 4, R |-> 1, tau_inc |-> 4,
       tau_dec |-> 2, lbound |-> <<-3>>],
      [rest |-> -1, reset |-> -5, thresh |-> -16, refrac |-> 3, tc_decay |-> 2,
       theta_plus |-> 0, tc_theta_decay |-> 1, R |-> 2, tau_inc |-> 2,
       tau_dec |-> 2, lbound |-> <<-3>>],
      [rest |-> 0, reset |-> -1, thresh |-> -15, refrac |-> 2, tc_decay |-> 4,
       theta_plus |-> 2, tc_theta_decay |-> 2, R |-> 1, tau_inc |-> 2,
       tau_dec |-> 4, lbound |-> None] }

\* QuintanaSLNodes(rest, reset, thresh, tc_decay, R, tau_inc, tau_dec)
SLConfigs ==
    { [rest |-> 0, reset |-> 0, thresh |-> 4, tc_decay |-> 2, R |-> 1,
       tau_inc |-> 4, tau_dec |-> 2],
      [rest |-> -2, reset |-> 3, thresh |-> 3, tc_decay |-> 2, R |-> 2,
       tau_inc |-> 2, tau_dec |-> 2] }

Sizes == {1}                \* n, the number of neurons of the layer
BatchSizes == {1, 2}        \* batch sizes offered to set_batch_size
DtValues == {1, 2}          \* simulation time steps offered to compute_decays
InputValues == {-2, 0, 2}   \* per-neuron input of one forward step

Inputs == [Batch -> [Neurons -> InputValues]]

Tensor(val) == [b \in Batch |-> [j \in Neurons |-> val]]

----------------------------------------------------------------------------
(* State after construction: the buffers v, I, X, refrac_count are empty   *)
(* tensors, the decay coefficients are unassigned, theta is 20 per neuron, *)
(* learning is on.                                                         *)

Init ==
    /\ cls \in {Exc, SL}
    /\ n \in Sizes
    /\ par \in (IF cls = Exc THEN ExcConfigs ELSE SLConfigs)
    /\ dt = NoDt
    /\ dec = IF cls = Exc
             THEN [decay |-> Unset, theta_decay |-> Unset, C |-> Unset,
                   I_decay |-> Unset, X_decay |-> Unset]
             ELSE [decay |-> Unset, C |-> Unset, I_decay |-> Unset,
                   X_decay |-> Unset]
    /\ learning = TRUE
    /\ batch_size = 0
    /\ v = << >>
    /\ I = << >>
    /\ X = << >>
    /\ s = << >>
    /\ refrac_count = << >>
    /\ theta = IF cls = Exc THEN [j \in Neurons |-> ThetaInit] ELSE << >>
    /\ op = "__init__"
    /\ xin = << >>
    /\ work = 0
    /\ hist = NoHist
    /\ net = NoNet

----------------------------------------------------------------------------
(* compute_decays(dt).  dt is the time step of the network: a layer gets  *)
(* it when it is added to the network, before its first simulation step.   *)

ExcDecays(d) ==
    [decay |-> Quot(d, par.tc_decay),
     theta_decay |-> Quot(d, par.tc_theta_decay),
     C |-> KernelC(par.tau_inc, par.tau_dec),
     I_decay |-> Quot(d, par.tau_inc),
     X_decay |-> Quot(d, par.tau_dec)]

SLDecays(d) ==
    [decay |-> Quot(d, par.tc_decay),
     C |-> KernelC(par.tau_inc, par.tau_dec),
     I_decay |-> Quot(d, par.tau_inc),
     X_decay |-> Quot(d, par.tau_dec)]

ComputeDecays(d) ==
    /\ work = 0
    /\ dt' = d
    /\ dec' = IF cls = Exc THEN ExcDecays(d) ELSE SLDecays(d)
    /\ op' = "compute_decays"
    /\ UNCHANGED <<hist, net, cls, n, par, learning, batch_size, v, I, X, s, refrac_count,
                   theta, xin, work>>

----------------------------------------------------------------------------
(* set_batch_size(batch_size) *)

SetBatchSize(size) ==
    /\ batch_size' = size
    /\ s' = [b \in 1..size |-> [j \in Neurons |-> FALSE]]
    /\ X' = [b \in 1..size |-> [j \in Neurons |-> 0]]
    /\ I' = [b \in 1..size |-> [j \in Neurons |-> 0]]
    /\ v' = [b \in 1..size |-> [j \in Neurons |-> par.rest]]
    /\ refrac_count' = IF cls = Exc
                       THEN [b \in 1..size |-> [j \in Neurons |-> 0]]
                       ELSE refrac_count
    /\ op' = "set_batch_size"
    /\ xin' = << >>
    /\ UNCHANGED <<hist, net, cls, n, par, dt, dec, learning, theta, work>>

----------------------------------------------------------------------------
(* reset_state_variables() *)

ResetStateVariables_KeepsCurrent ==
    /\ s' = Tensor(FALSE)
    /\ v' = Tensor(par.rest)
    /\ X' = Tensor(0)
    /\ refrac_count' = IF cls = Exc THEN Tensor(0) ELSE refrac_count
    /\ op' = "reset_state_variables"
    /\ xin' = << >>
    /\ UNCHANGED <<hist, net, cls, n, par, dt, dec, learning, batch_size, theta, work, I>>

ResetState_KeepsVoltage ==
    /\ s' = Tensor(FALSE)
    /\ X' = Tensor(0)
    /\ I' = Tensor(0)
    /\ refrac_count' = IF cls = Exc THEN Tensor(0) ELSE refrac_count
    /\ op' = "reset_state_variables"
    /\ xin' = << >>
    /\ UNCHANGED <<cls, n, par, dt, dec, learning, batch_size, theta, work, v>>

ResetState ==
    /\ s' = Tensor(FALSE)
    /\ v' = Tensor(par.rest)
    /\ X' = Tensor(0)
    /\ I' = Tensor(0)
    /\ refrac_count' = IF cls = Exc THEN Tensor(0) ELSE refrac_count
    /\ op' = "reset_state_variables"
    /\ xin' = << >>
    /\ UNCHANGED <<cls, n, par, dt, dec, learning, batch_size, theta, work>>

ResetStateVariables ==
    /\ ResetState
    /\ UNCHANGED <<hist, net>>

----------------------------------------------------------------------------
(* train(mode): the learning flag read by forward. *)

Train(mode) ==
    /\ learning # mode
    /\ learning' = mode
    /\ op' = "train"
    /\ UNCHANGED <<hist, net, cls, n, par, dt, dec, batch_size, v, I, X, s, refrac_count,
                   theta, xin, work>>

----------------------------------------------------------------------------
(* The steps of forward, per neuron and batch element. *)

\* self.v += self.decay * (self.rest - self.v + self.R*self.I)
DecayVoltage(vv, ii) == vv + Times(dec.decay, par.rest - vv + par.R * ii)

DecayCurrent_Leak(ii, xx) == ii - Times(dec.I_decay, ii)

\* self.I += self.I_decay * (self.C*self.X - self.I)
DecayCurrent(ii, xx) == ii + Times(dec.I_decay, Times(dec.C, xx) - ii)

\* self.X -= self.X_decay * self.X
DecayTrace(xx) == xx - Times(dec.X_decay, xx)

DecayTheta_Twice(th) ==
    IF learning THEN th - 2 * Times(dec.theta_decay, th) ELSE th

DecayTheta_Always(th) == th - Times(dec.theta_decay, th)

\* if self.learning: self.theta -= self.theta_decay * self.theta
DecayTheta(th) ==
    IF learning THEN th - Times(dec.theta_decay, th) ELSE th

MaskInput_Off(x, rc) == x

MaskInput_AfterDecrement(x, rc) == IF rc - dt > 0 THEN 0 ELSE x

\* x.masked_fill_(self.refrac_count > 0, 0.0)
MaskInput(x, rc) == IF rc > 0 THEN 0 ELSE x

\* self.s = self.v >= (self.thresh + self.theta)
ExcSpike(vv, th) == vv >= par.thresh + th

ResetRefrac_Off(rc, sp) == rc

\* self.refrac_count.masked_fill_(self.s, self.refrac)
ResetRefrac(rc, sp) == IF sp THEN par.refrac ELSE rc

\* self.v.masked_fill_(self.s, self.reset)
ResetVoltage(vv, sp) == IF sp THEN par.reset ELSE vv

RaiseTheta_Always(th, k) == th + par.theta_plus * k

RaiseTheta_Once(th, k) ==
    IF learning /\ k > 0 THEN th + par.theta_plus ELSE th

\* if self.learning: self.theta += 1 * self.theta_plus * self.s.float().sum(0)
RaiseTheta(th, k) ==
    IF learning THEN th + par.theta_plus * k ELSE th

ClipVoltage_Off(vv) == vv

\* if self.lbound is not None: self.v.masked_fill_(self.v < self.lbound, self.lbound)
ClipVoltage(vv) ==
    IF par.lbound # None /\ vv < par.lbound[1] THEN par.lbound[1] ELSE vv

\* self.s = self.v >= self.thresh
SLSpike(vv) == vv >= par.thresh

----------------------------------------------------------------------------
(* QuintanaExcNodes.forward(x) *)

\* The voltages after line 122, theta after line 127, the spikes of line 137
\* and theta after line 144.
ExcV1 == [b \in Batch |-> [j \in Neurons |-> DecayVoltage(v[b][j], I[b][j])]]
ExcTheta1 == [j \in Neurons |-> DecayTheta(theta[j])]
ExcSpikes ==
    [b \in Batch |-> [j \in Neurons |-> ExcSpike(ExcV1[b][j], ExcTheta1[j])]]
ExcTheta2 ==
    [j \in Neurons |->
        RaiseTheta(ExcTheta1[j], Cardinality({b \in Batch : ExcSpikes[b][j]}))]

\* The input added to X before I is updated from X.
ExcStep_InputFirst(x) ==
    /\ cls = Exc
    /\ dt # NoDt
    /\ batch_size > 0
    /\ v' = [b \in Batch |-> [j \in Neurons |->
               ClipVoltage(ResetVoltage(ExcV1[b][j], ExcSpikes[b][j]))]]
    /\ I' = [b \in Batch |-> [j \in Neurons |->
               DecayCurrent(I[b][j],
                            X[b][j] + MaskInput(x[b][j], refrac_count[b][j]))]]
    /\ X' = [b \in Batch |-> [j \in Neurons |->
               DecayTrace(X[b][j]) + MaskInput(x[b][j], refrac_count[b][j])]]
    /\ refrac_count' = [b \in Batch |-> [j \in Neurons |->
               ResetRefrac(refrac_count[b][j] - dt, ExcSpikes[b][j])]]
    /\ s' = ExcSpikes
    /\ theta' = ExcTheta2
    /\ op' = "forward"
    /\ xin' = x
    /\ work' = work + batch_size * n
    /\ UNCHANGED <<cls, n, par, dt, dec, learning, batch_size>>

ExcStep(x) ==
    /\ cls = Exc
    /\ dt # NoDt
    /\ batch_size > 0
    /\ v' = [b \in Batch |-> [j \in Neurons |->
               ClipVoltage(ResetVoltage(ExcV1[b][j], ExcSpikes[b][j]))]]
    /\ I' = [b \in Batch |-> [j \in Neurons |->
               DecayCurrent(I[b][j], X[b][j])]]
    /\ X' = [b \in Batch |-> [j \in Neurons |->
               DecayTrace(X[b][j]) + MaskInput(x[b][j], refrac_count[b][j])]]
    /\ refrac_count' = [b \in Batch |-> [j \in Neurons |->
               ResetRefrac(refrac_count[b][j] - dt, ExcSpikes[b][j])]]
    /\ s' = ExcSpikes
    /\ theta' = ExcTheta2
    /\ op' = "forward"
    /\ xin' = x
    /\ work' = work + batch_size * n
    /\ UNCHANGED <<cls, n, par, dt, dec, learning, batch_size>>

\* forward within the bounds of the model.
ExcForward(x) ==
    /\ cls = Exc
    /\ dt # NoDt
    /\ work + batch_size * n <= MaxWork
    /\ \A j \in Neurons : Abs(ExcTheta2[j]) <= MaxTheta
    /\ ExcStep(x)
    /\ UNCHANGED <<hist, net>>

----------------------------------------------------------------------------
(* QuintanaSLNodes.forward(x) *)

SLForward_Integrates(x) ==
    LET v1 == [b \in Batch |-> [j \in Neurons |->
                  DecayVoltage(v[b][j], I[b][j])]]
        sp == [b \in Batch |-> [j \in Neurons |-> SLSpike(v1[b][j])]]
    IN  /\ cls = SL
        /\ dt # NoDt
        /\ batch_size > 0
        /\ work + batch_size * n <= MaxWork
        /\ v' = [b \in Batch |-> [j \in Neurons |->
                   ResetVoltage(v1[b][j], sp[b][j])]]
        /\ I' = [b \in Batch |-> [j \in Neurons |->
                   DecayCurrent(I[b][j], X[b][j])]]
        /\ X' = [b \in Batch |-> [j \in Neurons |->
                   DecayTrace(X[b][j]) + x[b][j]]]
        /\ s' = sp
        /\ op' = "forward"
        /\ xin' = x
        /\ work' = work + batch_size * n
        /\ UNCHANGED <<hist, net, cls, n, par, dt, dec, learning, batch_size, refrac_count,
                       theta>>

SLStep(x) ==
    LET v1 == [b \in Batch |-> [j \in Neurons |->
                  IF learning THEN v[b][j]
                  ELSE DecayVoltage(v[b][j], I[b][j])]]
        sp == [b \in Batch |-> [j \in Neurons |-> SLSpike(v1[b][j])]]
    IN  /\ cls = SL
        /\ dt # NoDt
        /\ batch_size > 0
        /\ v' = [b \in Batch |-> [j \in Neurons |->
                   ResetVoltage(v1[b][j], sp[b][j])]]
        /\ I' = IF learning THEN I
                ELSE [b \in Batch |-> [j \in Neurons |->
                        DecayCurrent(I[b][j], X[b][j])]]
        /\ X' = IF learning THEN X
                ELSE [b \in Batch |-> [j \in Neurons |->
                        DecayTrace(X[b][j]) + x[b][j]]]
        /\ s' = sp
        /\ op' = "forward"
        /\ xin' = x
        /\ work' = work + batch_size * n
        /\ UNCHANGED <<cls, n, par, dt, dec, learning, batch_size,
                       refrac_count, theta>>

\* forward within the bounds of the model.
SLForward(x) ==
    /\ cls = SL
    /\ work + batch_size * n <= MaxWork
    /\ SLStep(x)
    /\ UNCHANGED <<hist, net>>

----------------------------------------------------------------------------

Next ==
    \/ \E d \in DtValues : ComputeDecays(d)
    \/ \E b \in BatchSizes : SetBatchSize(b)
    \/ ResetStateVariables
    \/ \E mode \in BOOLEAN : Train(mode)
    \/ \E x \in Inputs : ExcForward(x)
    \/ \E x \in Inputs : SLForward(x)

Spec == Init /\ [][Next]_vars

----------------------------------------------------------------------------
(* A population driven with sustained input: an excitatory layer added to  *)
(* a network (train, compute_decays, set_batch_size(1)) and then stepped   *)
(* with the same input at every simulation step, as Network.run does for   *)
(* every timestep of a run.  The layer has one neuron and one batch        *)
(* element; the drive is one whose steady voltage exceeds the threshold    *)
(* thresh + theta the layer is constructed with.                           *)

DriveValues == {4, 8}

\* The voltage a constant input x settles at, rest + R * C * x / X_decay.
SteadyVoltage(x) ==
    par.rest + par.R * Times(dec.C, RoundDiv(x * par.tau_dec, dt))

InitSustained ==
    /\ cls = Exc
    /\ n \in Sizes
    /\ par \in ExcConfigs
    /\ dt \in DtValues
    /\ dec = ExcDecays(dt)
    /\ learning \in BOOLEAN
    /\ batch_size = 1
    /\ v = Tensor(par.rest)
    /\ I = Tensor(0)
    /\ X = Tensor(0)
    /\ s = Tensor(FALSE)
    /\ refrac_count = Tensor(0)
    /\ theta = [j \in Neurons |-> ThetaInit]
    /\ op = "set_batch_size"
    /\ xin = << >>
    /\ work = 0
    /\ hist = NoHist
    /\ net = NoNet

SustainedForward ==
    \E d \in DriveValues :
        /\ SteadyVoltage(d) > par.thresh + ThetaInit
        /\ xin = << >> \/ xin = Tensor(d)
        /\ ExcForward(Tensor(d))

NextSustained == SustainedForward

SpecSustained ==
    InitSustained /\ [][NextSustained]_vars /\ WF_vars(NextSustained)

----------------------------------------------------------------------------
(* The two-neuron scenario: QuintanaExcNodes(n=2, rest=0, thresh=120,      *)
(* theta_plus=0.05), every other parameter at its default, time step 0.5,  *)
(* reset and then driven with the input [100, 0] at every step.  Times are *)
(* counted in steps of 0.5 (TimeScale per unit) and voltages, currents and *)
(* inputs in units of 0.05 (ValueScale per unit), so that theta_plus is 1. *)

TimeScale == 2
ValueScale == 20
ScenarioSteps == 50

ScenarioConfig ==
    [rest |-> 0, reset |-> -65 * ValueScale, thresh |-> 120 * ValueScale,
     refrac |-> 2 * TimeScale, tc_decay |-> 100 * TimeScale,
     theta_plus |-> 1, tc_theta_decay |-> 20000000 * TimeScale, R |-> 32,
     tau_inc |-> 10 * TimeScale, tau_dec |-> 5 * TimeScale,
     lbound |-> <<-100 * ValueScale>>]

ScenarioInput == [b \in Batch |-> <<100 * ValueScale, 0>>]

InitScenario ==
    /\ cls = Exc
    /\ n = 2
    /\ par = ScenarioConfig
    /\ dt = 1
    /\ dec = ExcDecays(dt)
    /\ learning \in BOOLEAN
    /\ batch_size \in BatchSizes
    /\ v = Tensor(par.rest)
    /\ I = Tensor(0)
    /\ X = Tensor(0)
    /\ s = Tensor(FALSE)
    /\ refrac_count = Tensor(0)
    /\ theta = [j \in Neurons |-> ThetaInit * ValueScale]
    /\ op = "set_batch_size"
    /\ xin = << >>
    /\ work = 0
    /\ hist = [steps |-> 0, spikes |-> Tensor(0)]
    /\ net = NoNet

ScenarioReset ==
    /\ op = "set_batch_size"
    /\ ResetStateVariables

\* One step of the run; hist counts the steps and every neuron's spikes.
ScenarioForward ==
    /\ op \in {"reset_state_variables", "forward"}
    /\ hist.steps < ScenarioSteps
    /\ ExcStep(ScenarioInput)
    /\ hist' = [steps |-> hist.steps + 1,
                spikes |-> [b \in Batch |-> [j \in Neurons |->
                    hist.spikes[b][j] + IF ExcSpikes[b][j] THEN 1 ELSE 0]]]
    /\ UNCHANGED net

NextScenario == ScenarioReset \/ ScenarioForward

SpecScenario == InitScenario /\ [][NextScenario]_vars

----------------------------------------------------------------------------
(* Quintana2020.__init__ (src/model.py): the network assembled from the    *)
(* constructor's arguments.  net holds the arguments, then the recorded    *)
(* training-method label and the recurrent (Y -> Y) and output (Y -> Z)    *)
(* connections.  Output weights are exact fractions <<numerator,           *)
(* denominator>>.  The population variables hold the hidden layer Y as     *)
(* constructed.                                                            *)

NNeurons == 3               \* n_neurons
NOutputs == 2               \* n_outpt
InhValues == {0, 1, 60}     \* inh, the strength of the lateral inhibition
OutWminValues == {-2, 0}    \* out_wmin
OutWmax == 8                \* out_wmax
NormScale == <<1, 10>>      \* norm_scale = 0.1
RandValues == {0, 3}        \* values of torch.rand(...) * out_wmax
LearnedValues == {-2, 0, 8} \* weights left by the learning rule, before the clamp

Hidden == 1..NNeurons
Outputs == 1..NOutputs

RECURSIVE GCD(_, _)
GCD(a, b) == IF b = 0 THEN a ELSE GCD(b, a % b)

\* A fraction in lowest terms with a positive denominator.
Reduce(q) ==
    LET g == GCD(Abs(q[1]), Abs(q[2]))
        sg == IF q[2] < 0 THEN -1 ELSE 1
    IN  <<sg * (q[1] \div g), sg * (q[2] \div g)>>
FracAbs(q) == <<Abs(q[1]), Abs(q[2])>>
FracAdd(p, q) == Reduce(<<p[1] * q[2] + q[1] * p[2], p[2] * q[2]>>)
FracMul(p, q) == Reduce(<<p[1] * q[1], p[2] * q[2]>>)
FracDiv(p, q) == Reduce(<<p[1] * q[2], p[2] * q[1]>>)

RECURSIVE FracSum(_)
FracSum(row) ==
    IF row = << >> THEN <<0, 1>>
    ELSE FracAdd(row[1], FracSum(Tail(row)))

\* w.abs().sum(1) of one row, w.abs().sum(0) of one column
RowAbsSum(w, i) == FracSum([j \in 1..Len(w[i]) |-> FracAbs(w[i][j])])
ColAbsSum(w, j) == FracSum([i \in 1..Len(w) |-> FracAbs(w[i][j])])

\* torch.clamp(x, lo, hi) = min(max(x, lo), hi)
Clamp(x, lo, hi) ==
    LET m == IF x < lo THEN lo ELSE x IN IF m > hi THEN hi ELSE m

\* norm = norm_scale * self.n_outpt * out_wmax
OutputNorm == Reduce(<<NormScale[1] * NOutputs * OutWmax, NormScale[2]>>)

\* w = -self.inh * (torch.ones(n, n) - torch.diag(torch.ones(n)))
RecurrentWeights_NoDiag(inh) ==
    [i \in Hidden |-> [j \in Hidden |-> -inh]]

RecurrentWeights(inh) ==
    [i \in Hidden |-> [j \in Hidden |-> -inh * (1 - IF i = j THEN 1 ELSE 0)]]

\* Connection(source, target, w, wmin, wmax): a supplied w is clamped to
\* finite bounds; no update_rule gives a connection that never learns.
RecurrentConnection(inh) ==
    [w |-> [i \in Hidden |-> [j \in Hidden |->
               Clamp(RecurrentWeights(inh)[i][j], -inh, 0)]],
     wmin |-> -inh, wmax |-> 0, update_rule |-> "None", norm |-> None]

\* YewConnection(source, target, w, update_rule=DA_STDP, wmin, wmax, norm)
OutputConnection(rand, wmin) ==
    [w |-> [i \in Hidden |-> [j \in Outputs |->
               <<Clamp(rand[i][j], wmin, OutWmax), 1>>]],
     wmin |-> wmin, wmax |-> OutWmax, update_rule |-> "DA_STDP",
     norm |-> OutputNorm]

\* self.method = "Layer-by-layer" if method else "Simultaneous"
MethodLabel(method) == IF method THEN "Layer-by-layer" ELSE "Simultaneous"

Quintana2020(args, rand) ==
    [phase |-> "built", args |-> args,
     method |-> MethodLabel(args.method),
     recurrent |-> RecurrentConnection(args.inh),
     output |-> OutputConnection(rand, args.out_wmin)]

NetworkArgs == [method : BOOLEAN, inh : InhValues, out_wmin : OutWminValues]
RandDraws == [Hidden -> [Outputs -> RandValues]]

\* The hidden layer: QuintanaExcNodes(n=n_neurons, rest=0, reset=0,
\* thresh=120, refrac=2, tc_decay=100, theta_plus, tc_theta_decay,
\* tau_inc=10, tau_dec=5), in the units of the two-neuron scenario.
HiddenConfig == [ScenarioConfig EXCEPT !.reset = 0]

InitNetwork ==
    /\ cls = Exc
    /\ n = NNeurons
    /\ par = HiddenConfig
    /\ dt = NoDt
    /\ dec = [decay |-> Unset, theta_decay |-> Unset, C |-> Unset,
              I_decay |-> Unset, X_decay |-> Unset]
    /\ learning = TRUE
    /\ batch_size = 0
    /\ v = << >>
    /\ I = << >>
    /\ X = << >>
    /\ s = << >>
    /\ refrac_count = << >>
    /\ theta = [j \in Neurons |-> ThetaInit * ValueScale]
    /\ op = "__init__"
    /\ xin = << >>
    /\ work = 0
    /\ hist = NoHist
    /\ net \in [phase : {"args"}, args : NetworkArgs]

Construct ==
    /\ net.phase = "args"
    /\ \E rand \in RandDraws : net' = Quintana2020(net.args, rand)
    /\ UNCHANGED <<cls, n, par, dt, dec, learning, batch_size, v, I, X, s,
                   refrac_count, theta, op, xin, work, hist>>

\* update(): the learning rule changes the weights, which are then clamped
\* to [wmin, wmax].
Update ==
    /\ net.phase = "built"
    /\ \E lw \in [Hidden -> [Outputs -> LearnedValues]] :
           net' = [net EXCEPT !.phase = "learned",
                              !.output.w = [i \in Hidden |-> [j \in Outputs |->
                                  <<Clamp(lw[i][j], net.output.wmin,
                                          net.output.wmax), 1>>]]]
    /\ UNCHANGED <<cls, n, par, dt, dec, learning, batch_size, v, I, X, s,
                   refrac_count, theta, op, xin, work, hist>>

\* The normalization of bindsnet's Connection, along the postsynaptic axis.
NormalizeRows_Columns(w, norm) ==
    [i \in 1..Len(w) |-> [j \in 1..Len(w[i]) |->
        IF ColAbsSum(w, j)[1] = 0 THEN w[i][j]
        ELSE FracMul(w[i][j], FracDiv(norm, ColAbsSum(w, j)))]]

\* normalize(): every row is rescaled to the absolute sum norm; a row whose
\* absolute sum is zero is left as it is.
NormalizeRows(w, norm) ==
    [i \in 1..Len(w) |-> [j \in 1..Len(w[i]) |->
        IF RowAbsSum(w, i)[1] = 0 THEN w[i][j]
        ELSE FracMul(w[i][j], FracDiv(norm, RowAbsSum(w, i)))]]

Normalize ==
    /\ net.phase \in {"built", "learned"}
    /\ net.output.norm # None
    /\ net' = [net EXCEPT !.phase = "normalized",
                          !.output.w = NormalizeRows(net.output.w,
                                                     net.output.norm)]
    /\ UNCHANGED <<cls, n, par, dt, dec, learning, batch_size, v, I, X, s,
                   refrac_count, theta, op, xin, work, hist>>

NextNetwork == Construct \/ Update \/ Normalize

SpecNetwork == InitNetwork /\ [][NextNetwork]_vars

----------------------------------------------------------------------------
(* A batch of two through a layer of two neurons in learning mode: the     *)
(* layer is reset and then stepped with inputs that may differ between the *)
(* batch elements and between the neurons.  hist keeps theta as it was     *)
(* before the last step.                                                   *)

MaxBatchSteps == 4

BatchConfig ==
    [rest |-> 0, reset |-> 0, thresh |-> -16, refrac |-> 2, tc_decay |-> 2,
     theta_plus |-> 1, tc_theta_decay |-> 40, R |-> 1, tau_inc |-> 4,
     tau_dec |-> 2, lbound |-> <<-3>>]

\* The input of one batch element: no neuron or one neuron is driven.
BatchInputRows == {<<0, 0>>, <<8, 0>>, <<0, 8>>}

InitBatch ==
    /\ cls = Exc
    /\ n = 2
    /\ par = BatchConfig
    /\ dt = 1
    /\ dec = ExcDecays(dt)
    /\ learning = TRUE
    /\ batch_size = 2
    /\ v = Tensor(par.rest)
    /\ I = Tensor(0)
    /\ X = Tensor(0)
    /\ s = Tensor(FALSE)
    /\ refrac_count = Tensor(0)
    /\ theta = [j \in Neurons |-> ThetaInit]
    /\ op = "reset_state_variables"
    /\ xin = << >>
    /\ work = 0
    /\ hist = [theta |-> theta]
    /\ net = NoNet

BatchForward ==
    /\ work < MaxBatchSteps * batch_size * n
    /\ \E x \in [Batch -> BatchInputRows] : ExcStep(x)
    /\ hist' = [theta |-> theta]
    /\ UNCHANGED net

NextBatch == BatchForward

SpecBatch == InitBatch /\ [][NextBatch]_vars

----------------------------------------------------------------------------
(* Two runs of one neuron side by side, as the two elements of a batch:    *)
(* both start from the reset state and get the same input at every step,   *)
(* except at one step, where their inputs differ.  hist counts the steps   *)
(* and records the step at which the inputs differed (0: none so far).     *)
(* The batch elements of a layer share nothing but theta.                  *)

MaxTwinSteps == 5

InitTwin ==
    /\ cls = Exc
    /\ n = 1
    /\ par \in ExcConfigs
    /\ dt \in DtValues
    /\ dec = ExcDecays(dt)
    /\ learning \in BOOLEAN
    /\ batch_size = 2
    /\ v = Tensor(par.rest)
    /\ I = Tensor(0)
    /\ X = Tensor(0)
    /\ s = Tensor(FALSE)
    /\ refrac_count = Tensor(0)
    /\ theta = [j \in Neurons |-> ThetaInit]
    /\ op = "reset_state_variables"
    /\ xin = << >>
    /\ work = 0
    /\ hist = [steps |-> 0, differed |-> 0]
    /\ net = NoNet

TwinForwardSame ==
    /\ hist.steps < MaxTwinSteps
    /\ \E a \in InputValues : ExcStep(Tensor(a))
    /\ hist' = [hist EXCEPT !.steps = @ + 1]
    /\ UNCHANGED net

TwinForwardDifferent ==
    /\ hist.steps < MaxTwinSteps
    /\ hist.differed = 0
    /\ \E a \in InputValues : \E c \in InputValues :
          /\ a < c
          /\ ExcStep(<<<<a>>, <<c>>>>)
    /\ hist' = [steps |-> hist.steps + 1, differed |-> hist.steps + 1]
    /\ UNCHANGED net

NextTwin == TwinForwardSame \/ TwinForwardDifferent

SpecTwin == InitTwin /\ [][NextTwin]_vars

----------------------------------------------------------------------------
(* One neuron followed through its refractory period: the layer is reset   *)
(* and stepped with any inputs.  hist tells whether the neuron has spiked  *)
(* and how many forward steps were taken since its last spike.  One of the *)
(* setups has refrac = 4 time steps, as refrac = 2 at dt = 0.5; in another *)
(* refrac is not a multiple of dt.                                         *)

MaxRefracSteps == 8

\* refrac is four time steps; the synaptic current and the voltage follow
\* the trace without delay, so that a neuron that spiked falls silent.
FourStepConfig ==
    [rest |-> 0, reset |-> 0, thresh |-> -16, refrac |-> 4, tc_decay |-> 1,
     theta_plus |-> 1, tc_theta_decay |-> 400, R |-> 1, tau_inc |-> 1,
     tau_dec |-> 2, lbound |-> <<-3>>]

\* refrac is one and a half time steps of dt = 2.
OddStepConfig ==
    [rest |-> 0, reset |-> 0, thresh |-> -16, refrac |-> 3, tc_decay |-> 2,
     theta_plus |-> 1, tc_theta_decay |-> 400, R |-> 1, tau_inc |-> 2,
     tau_dec |-> 4, lbound |-> <<-3>>]

RefracSetups ==
    {<<c, d>> : c \in ExcConfigs, d \in DtValues}
        \cup {<<FourStepConfig, 1>>, <<OddStepConfig, 2>>}

InitRefrac ==
    /\ cls = Exc
    /\ n = 1
    /\ \E su \in RefracSetups : par = su[1] /\ dt = su[2]
    /\ dec = ExcDecays(dt)
    /\ learning \in BOOLEAN
    /\ batch_size = 1
    /\ v = Tensor(par.rest)
    /\ I = Tensor(0)
    /\ X = Tensor(0)
    /\ s = Tensor(FALSE)
    /\ refrac_count = Tensor(0)
    /\ theta = [j \in Neurons |-> ThetaInit]
    /\ op = "reset_state_variables"
    /\ xin = << >>
    /\ work = 0
    /\ hist = [steps |-> 0, spiked |-> FALSE, since |-> 0]
    /\ net = NoNet

RefracForward ==
    /\ hist.steps < MaxRefracSteps
    /\ \E a \in InputValues : ExcStep(Tensor(a))
    /\ hist' = [steps |-> hist.steps + 1,
                spiked |-> hist.spiked \/ ExcSpikes[1][1],
                since |-> IF ExcSpikes[1][1] THEN 0 ELSE hist.since + 1]
    /\ UNCHANGED net

NextRefrac == RefracForward

SpecRefrac == InitRefrac /\ [][NextRefrac]_vars

----------------------------------------------------------------------------
(* The supervision layer between teaching and inference: a QuintanaSLNodes *)
(* layer added to a network is switched between the learning modes, reset  *)
(* and stepped with any inputs.  hist.pure holds while every forward step  *)
(* since the last reset was taken in learning mode.                        *)

MaxFrozenSteps == 6

InitFrozen ==
    /\ cls = SL
    /\ n = 1
    /\ par \in SLConfigs
    /\ dt \in DtValues
    /\ dec = SLDecays(dt)
    /\ learning \in BOOLEAN
    /\ batch_size = 1
    /\ v = Tensor(par.rest)
    /\ I = Tensor(0)
    /\ X = Tensor(0)
    /\ s = Tensor(FALSE)
    /\ refrac_count = << >>
    /\ theta = << >>
    /\ op = "set_batch_size"
    /\ xin = << >>
    /\ work = 0
    /\ hist = [pure |-> FALSE]
    /\ net = NoNet

FrozenTrain == \E mode \in BOOLEAN : Train(mode)

FrozenReset ==
    /\ ResetState
    /\ hist' = [pure |-> TRUE]
    /\ UNCHANGED net

FrozenForward ==
    /\ work < MaxFrozenSteps * batch_size * n
    /\ \E x \in Inputs : SLStep(x)
    /\ hist' = [pure |-> hist.pure /\ learning]
    /\ UNCHANGED net

NextFrozen == FrozenTrain \/ FrozenReset \/ FrozenForward

SpecFrozen == InitFrozen /\ [][NextFrozen]_vars

----------------------------------------------------------------------------
(* Properties. *)

Elements == {<<b, j>> : b \in Batch, j \in Neurons}

ExcStepped == cls = Exc /\ op = "forward"
SLStepped == cls = SL /\ op = "forward"

\* The number of batch elements in which neuron j spiked in the last step.
SpikeCount(j) == Cardinality({b \in Batch : s[b][j]})

\* C1: with a configured lbound, after every forward step of the excitatory
\* population every neuron of every batch element has v >= lbound.
C1_VoltageAboveLbound ==
    (ExcStepped /\ par.lbound # None) =>
        \A e \in Elements : v[e[1]][e[2]] >= par.lbound[1]

\* A spike of a population whose reset voltage lies below lbound: the reset
\* value was clipped.
C1_Witness ==
    /\ ExcStepped
    /\ par.lbound # None
    /\ \E e \in Elements :
          /\ s[e[1]][e[2]]
          /\ par.reset < par.lbound[1]
          /\ v[e[1]][e[2]] = par.lbound[1]

\* C2: after reset_state_variables v is the rest voltage and I and X are zero
\* for every neuron and batch element; for the excitatory population the
\* refractory counter is zero too.
C2_ResetRestoresState ==
    op = "reset_state_variables" =>
        \A e \in Elements :
            /\ v[e[1]][e[2]] = par.rest
            /\ I[e[1]][e[2]] = 0
            /\ X[e[1]][e[2]] = 0
            /\ cls = Exc => refrac_count[e[1]][e[2]] = 0

\* A reset of a two-element batch after forward steps.
C2_Witness ==
    /\ op = "reset_state_variables"
    /\ batch_size = 2
    /\ work >= 4

\* b lies strictly closer to zero than a, on the same side.
StrictlyTowardZero(a, b) == Abs(b) < Abs(a) /\ a * b >= 0

\* C4 as stated: with theta_decay > 0, theta of a neuron does not decrease
\* across a learning-mode forward step in which the neuron spiked, and
\* strictly moves toward zero across every forward step in which it did not.
C4_ThetaUpOnSpikeDownOtherwise ==
    [][(cls = Exc /\ op' = "forward" /\ dec.theta_decay[1] > 0) =>
          \A j \in Neurons :
              /\ (learning /\ \E b \in Batch : s'[b][j])
                     => theta'[j] >= theta[j]
              /\ (\A b \in Batch : ~s'[b][j])
                     => StrictlyTowardZero(theta[j], theta'[j])]_vars

\* C4 amended: with 0 < theta_decay <= 1, across a learning-mode forward
\* step in which neuron j spiked in k >= 1 batch elements theta[j] changes by
\* theta_plus * k - theta_decay * theta[j], so it is non-decreasing exactly
\* when theta_plus * k >= theta_decay * theta[j]; across a learning-mode step
\* without a spike of j it never moves away from zero, and moves strictly
\* toward zero when the rounded decrement theta_decay * theta[j] is not zero;
\* across a forward step with learning off it is unchanged.
C4_ThetaStep ==
    [][(cls = Exc /\ op' = "forward" /\ dt <= par.tc_theta_decay) =>
          \A j \in Neurons :
              LET k == Cardinality({b \in Batch : s'[b][j]})
                  d == RoundDiv(dt * theta[j], par.tc_theta_decay)
              IN  /\ (learning /\ k > 0) =>
                       /\ theta'[j] = theta[j] - d + par.theta_plus * k
                       /\ (theta'[j] >= theta[j]) <=> (par.theta_plus * k >= d)
                  /\ (learning /\ k = 0) =>
                       /\ Abs(theta'[j]) <= Abs(theta[j])
                       /\ theta'[j] * theta[j] >= 0
                       /\ d # 0 => StrictlyTowardZero(theta[j], theta'[j])
                  /\ ~learning => theta'[j] = theta[j]]_vars

\* A learning-mode step in which a neuron spiked and theta nevertheless fell
\* below its construction value.
C4_Witness ==
    /\ ExcStepped
    /\ learning
    /\ dt <= par.tc_theta_decay
    /\ \E j \in Neurons : SpikeCount(j) > 0 /\ theta[j] < ThetaInit

\* C5: no forward step sets s for a neuron whose refractory counter was
\* positive at the start of the step.
C5_NoSpikeWhileRefractory ==
    [][(cls = Exc /\ op' = "forward") =>
          \A e \in Elements :
              refrac_count[e[1]][e[2]] > 0 => ~s'[e[1]][e[2]]]_vars

\* C6: in an excitatory forward step a neuron whose refractory counter is > 0
\* at the start of the step gets X * (1 - X_decay) whatever its input, and a
\* neuron whose counter is <= 0 gets X * (1 - X_decay) + x.
C6_RefractoryInputMasked ==
    [][(cls = Exc /\ op' = "forward") =>
          \A e \in Elements :
              LET b == e[1]
                  j == e[2]
                  kept == X[b][j] - RoundDiv(dt * X[b][j], par.tau_dec)
              IN  X'[b][j] = IF refrac_count[b][j] > 0 THEN kept
                             ELSE kept + xin'[b][j]]_vars

\* A step that offered nonzero input to a neuron that was refractory at its
\* start (the counter, decremented by dt and not set again, is above -dt).
C6_Witness ==
    /\ ExcStepped
    /\ \E e \in Elements :
          /\ xin[e[1]][e[2]] # 0
          /\ ~s[e[1]][e[2]]
          /\ refrac_count[e[1]][e[2]] > -dt

\* C7: a population with tau_inc = tau_dec is rejected: compute_decays never
\* assigns it a kernel-normalization constant C.
C7_EqualTimeConstantsRejected ==
    ~(par.tau_inc = par.tau_dec /\ dec.C # Unset)

\* C8 as stated: with theta_plus >= 0, theta is never negative, for every
\* positive dt and tc_theta_decay.
C8_ThetaNeverNegative ==
    (cls = Exc /\ par.theta_plus >= 0) =>
        \A j \in Neurons : theta[j] >= 0

\* C8 amended: with theta_plus >= 0 and dt <= tc_theta_decay (theta_decay
\* <= 1), theta is never negative.
C8_ThetaNonNegativeUnderStableDecay ==
    (cls = Exc /\ par.theta_plus >= 0 /\ dt <= par.tc_theta_decay) =>
        \A j \in Neurons : theta[j] >= 0

\* Theta decayed all the way to zero by learning-mode steps.
C8_Witness ==
    /\ ExcStepped
    /\ learning
    /\ par.theta_plus >= 0
    /\ dt <= par.tc_theta_decay
    /\ \E j \in Neurons : theta[j] = 0

\* C9: theta is changed only by a forward step taken in learning mode;
\* reset_state_variables, set_batch_size and forward steps with learning off
\* leave it exactly unchanged.
C9_ThetaChangedOnlyByLearningStep ==
    [][(cls = Exc /\ ~(op' = "forward" /\ learning)) => theta' = theta]_vars

\* A forward step with learning off in which a neuron spiked.
C9_Witness ==
    /\ ExcStepped
    /\ ~learning
    /\ par.theta_plus > 0
    /\ \E j \in Neurons : SpikeCount(j) > 0

\* C10: in learning mode a forward step of the supervision population leaves
\* I and X unchanged and changes v only by setting it to reset where
\* v >= thresh; in inference mode it applies the voltage, current and trace
\* updates and adds the input to X.
C10_SLFrozenWhileLearning ==
    [][(cls = SL /\ op' = "forward") =>
          \A e \in Elements :
              LET b == e[1]
                  j == e[2]
                  v1 == v[b][j] + RoundDiv(dt * (par.rest - v[b][j]
                            + par.R * I[b][j]), par.tc_decay)
                  i1 == I[b][j] + RoundDiv(dt * (Times(dec.C, X[b][j])
                            - I[b][j]), par.tau_inc)
                  x1 == X[b][j] - RoundDiv(dt * X[b][j], par.tau_dec)
              IN  IF learning
                  THEN /\ I'[b][j] = I[b][j]
                       /\ X'[b][j] = X[b][j]
                       /\ v'[b][j] = IF v[b][j] >= par.thresh THEN par.reset
                                     ELSE v[b][j]
                  ELSE /\ I'[b][j] = i1
                       /\ X'[b][j] = x1 + xin'[b][j]
                       /\ v'[b][j] = IF v1 >= par.thresh THEN par.reset
                                     ELSE v1]_vars

\* A learning-mode step that was offered nonzero input after inference steps
\* had left a nonzero trace and current.
C10_Witness ==
    /\ SLStepped
    /\ learning
    /\ \E e \in Elements :
          /\ xin[e[1]][e[2]] # 0
          /\ X[e[1]][e[2]] # 0
          /\ I[e[1]][e[2]] # 0

Max(a, b) == IF a >= b THEN a ELSE b

Spiked == \E e \in Elements : s[e[1]][e[2]]

\* C3 as stated: a neuron driven with sustained input exceeding its threshold
\* eventually spikes, and right after the forward step in which it spikes its
\* refractory counter is refrac and its voltage is the reset voltage.
C3_SpikesThenRefracAndReset ==
    /\ <>Spiked
    /\ [](ExcStepped =>
            \A e \in Elements :
                s[e[1]][e[2]] =>
                    /\ refrac_count[e[1]][e[2]] = par.refrac
                    /\ v[e[1]][e[2]] = par.reset)

\* C3 amended: the neuron eventually spikes, and right after that forward
\* step its refractory counter is refrac and its voltage is the reset
\* voltage, or lbound where a configured lbound lies above the reset voltage.
C3_SpikesThenRefracAndClippedReset ==
    /\ <>Spiked
    /\ [](ExcStepped =>
            \A e \in Elements :
                s[e[1]][e[2]] =>
                    /\ refrac_count[e[1]][e[2]] = par.refrac
                    /\ v[e[1]][e[2]] =
                          IF par.lbound = None THEN par.reset
                          ELSE Max(par.reset, par.lbound[1]))

\* A spike reached by the drive alone: learning is off, so the threshold
\* thresh + theta stayed at its construction value above rest.
C3_Witness ==
    /\ ExcStepped
    /\ ~learning
    /\ par.rest < par.thresh + ThetaInit
    /\ \E e \in Elements :
          /\ s[e[1]][e[2]]
          /\ refrac_count[e[1]][e[2]] = par.refrac
          /\ xin[e[1]][e[2]] > 0

----------------------------------------------------------------------------
(* C11: in the two-neuron scenario (rest 0, thresh 120, theta_plus 0.05,    *)
(* input [100, 0] at each of 50 steps of 0.5 from the reset state) the      *)
(* driven neuron has spiked at least once before step 50 and the undriven   *)
(* neuron never spikes.  Neuron 0 of the code is index 1 here.              *)
C11_DrivenNeuronSpikesOtherNever ==
    \A b \in Batch :
        /\ hist.spikes[b][2] = 0
        /\ ~s[b][2]
        /\ hist.steps >= ScenarioSteps - 1 => hist.spikes[b][1] >= 1

C11_Witness ==
    /\ hist.steps = ScenarioSteps
    /\ xin = ScenarioInput
    /\ \A b \in Batch : hist.spikes[b][1] >= 1 /\ hist.spikes[b][2] = 0

----------------------------------------------------------------------------
(* C12: the training-method flag is recorded as the constructor documents  *)
(* it (method=True is "Simultaneous", method=False is "Layer-by-layer"),    *)
(* and the flag changes nothing else in the assembled network.              *)
FlipMethod(args) == [args EXCEPT !.method = ~@]

C12_MethodLabelAsDocumented ==
    net.phase = "built" =>
        /\ net.method = IF net.args.method THEN "Simultaneous"
                        ELSE "Layer-by-layer"
        /\ \E rand \in RandDraws :
              /\ net = Quintana2020(net.args, rand)
              /\ net = [Quintana2020(FlipMethod(net.args), rand)
                           EXCEPT !.method = net.method, !.args = net.args]

----------------------------------------------------------------------------
(* C13: after normalize() on the output connection, every row of w whose   *)
(* absolute sum was nonzero has absolute sum equal to the norm constant,    *)
(* and every row that was all-zero is still all-zero.                       *)
C13_RowsNormalized ==
    [][(net.phase \in {"built", "learned"} /\ net'.phase = "normalized") =>
        \A i \in Hidden :
            IF RowAbsSum(net.output.w, i)[1] # 0
            THEN RowAbsSum(net'.output.w, i) = net.output.norm
            ELSE \A j \in Outputs : net'.output.w[i][j][1] = 0]_vars

C13_Witness ==
    /\ net.phase = "normalized"
    /\ \E i \in Hidden :
          /\ RowAbsSum(net.output.w, i) = net.output.norm
          /\ \E j \in Outputs : net.output.w[i][j][1] < 0
    /\ \E i \in Hidden : \A j \in Outputs : net.output.w[i][j][1] = 0

----------------------------------------------------------------------------
(* C15: the recurrent connection of the hidden layer has weight -inh from   *)
(* every neuron to every other neuron and 0 from every neuron to itself;    *)
(* every weight lies in the connection's bounds [-inh, 0]; the connection   *)
(* has no learning rule.                                                    *)
C15_RecurrentInhibitionStatic ==
    net.phase # "args" =>
        /\ \A i \in Hidden : \A j \in Hidden :
              /\ net.recurrent.w[i][j] = IF i = j THEN 0 ELSE -net.args.inh
              /\ net.recurrent.w[i][j] >= net.recurrent.wmin
              /\ net.recurrent.w[i][j] <= net.recurrent.wmax
        /\ net.recurrent.wmin = -net.args.inh
        /\ net.recurrent.wmax = 0
        /\ net.recurrent.update_rule = "None"

C15_Witness ==
    /\ net.phase = "built"
    /\ net.args.inh = 60
    /\ \A i \in Hidden : \A j \in Hidden \ {i} :
          net.recurrent.w[i][j] = -60 /\ net.recurrent.w[i][i] = 0

----------------------------------------------------------------------------
(* C14: a learning-mode forward step raises theta of neuron j by           *)
(* theta_plus times the number of batch elements in which neuron j spiked  *)
(* in that step (on top of the step's decay), and the one theta of neuron  *)
(* j is the threshold elevation of every batch element: a spike in one     *)
(* batch element raises the threshold of the neuron in all the others.     *)
ThetaDecayed(j) == theta[j] - Times(dec.theta_decay, theta[j])

C14_ThetaSharedAcrossBatch ==
    [][(cls = Exc /\ learning /\ op' = "forward" /\ work' > work) =>
        \A j \in Neurons :
            /\ theta'[j] = ThetaDecayed(j)
                   + par.theta_plus * Cardinality({b \in Batch : s'[b][j]})
            /\ \A b \in Batch :
                  s'[b][j] = (ExcV1[b][j] >= par.thresh + ThetaDecayed(j))]_vars

\* Neuron j spiked in the first batch element only: its theta went up by
\* theta_plus, for both batch elements.
C14_Witness ==
    /\ learning
    /\ op = "forward"
    /\ batch_size = 2
    /\ \E j \in Neurons :
          /\ s[1][j] /\ ~s[2][j]
          /\ theta[j] = hist.theta[j] - Times(dec.theta_decay, hist.theta[j])
                            + par.theta_plus
          /\ par.theta_plus > 0

----------------------------------------------------------------------------
(* C16: an input delivered in step t changes neither v nor the spike       *)
(* decision of steps t and t+1: two runs that agree before step t and       *)
(* differ only in the input of step t have the same v and s through step    *)
(* t+1; v can differ from step t+2 on.                                      *)
C16_InputReachesVoltageAfterTwoSteps ==
    (hist.differed = 0 \/ hist.steps <= hist.differed + 1) =>
        /\ v[1] = v[2]
        /\ s[1] = s[2]

C16_Witness ==
    /\ hist.differed > 0
    /\ hist.steps = hist.differed + 2
    /\ v[1] # v[2]

----------------------------------------------------------------------------
(* C17: after a neuron spikes in step t and does not spike again, its      *)
(* input is gated to zero in exactly the next ceil(refrac/dt) forward      *)
(* steps and accepted from the step after; the counter, set to refrac in   *)
(* step t, is tested for > 0 before it is decremented by dt.               *)
CeilDiv(a, b) == (a + b - 1) \div b

\* Step t+k with k = hist.since + 1: the counter is refrac - (k-1)*dt when
\* tested; the input is dropped iff k <= ceil(refrac/dt).
C17_GatedForCeilRefracOverDtSteps ==
    [][(hist.spiked /\ hist'.steps = hist.steps + 1) =>
        /\ refrac_count[1][1] = par.refrac - hist.since * dt
        /\ X'[1][1] = DecayTrace(X[1][1])
               + IF hist.since + 1 <= CeilDiv(par.refrac, dt)
                 THEN 0 ELSE xin'[1][1]]_vars

\* The first step after the gated ones, with refrac = 4 time steps: the
\* fifth step after the spike takes a nonzero input into X.
C17_Witness ==
    /\ hist.spiked
    /\ par.refrac = 4 /\ dt = 1
    /\ hist.since = CeilDiv(par.refrac, dt) + 1
    /\ xin[1][1] # 0
    /\ X[1][1] = xin[1][1]

----------------------------------------------------------------------------
(* C18: a supervision layer with rest < thresh that is reset and then      *)
(* stepped only in learning mode never spikes, whatever its input: after   *)
(* every such forward step s is false for every neuron and v is at rest.   *)
C18_NoSpikeWhileTaught ==
    (cls = SL /\ par.rest < par.thresh /\ hist.pure /\ op = "forward") =>
        \A e \in Elements : ~s[e[1]][e[2]] /\ v[e[1]][e[2]] = par.rest

\* A taught step with nonzero input after a reset, late in the run.
C18_Witness ==
    /\ hist.pure
    /\ op = "forward"
    /\ learning
    /\ work >= 4 * batch_size * n
    /\ \A e \in Elements : xin[e[1]][e[2]] # 0 /\ ~s[e[1]][e[2]]

============================================================================
